---- MODULE Spec2Model ----
(***************************************************************************)
(* OpencontrailLoadbalancerDriver (loadbalancer/driver.py): the adapter    *)
(* that reconciles a Contrail service instance with a Neutron pool/VIP     *)
(* pair.  The remote object store reached through self._api is the state;  *)
(* every handler runs to completion (synchronously) in one step.           *)
(***************************************************************************)
EXTENDS Integers, Sequences, FiniteSets, TLC

(* ------------------------------------------------------------------ *)
(* Bounds                                                              *)
(* ------------------------------------------------------------------ *)
\* number of changes made by anyone but the adapter to the resources the adapter
\* reads (pools, VIPs, interfaces, addresses, networks, the template), restarts
\* of the adapter included
MaxEnv == 1

(* ------------------------------------------------------------------ *)
(* The universe of identifiers                                         *)
(* ------------------------------------------------------------------ *)
PoolIds == {"p1", "p2"}
VipIds == {"v1"}
VmiIds == {"vmi1"}
IipIds == {"iip1"}
NetIds == {"netA", "netB"}
Addrs == {"10.0.0.5", "10.0.0.6"}
\* t1 is a project of the remote store; t2 is a tenant without a project
TenantIds == {"t1", "t2"}
ExistingProjects == {"t1"}

\* Python's None for a string-valued attribute or argument
None == "None"

LOADBALANCER_SERVICE_TEMPLATE == <<"default-domain", "haproxy-loadbalancer-template">>

ProjectFqName == [t \in ExistingProjects |-> <<"default-domain", "proj-" \o t>>]
\* a pool's fq_name is its project's fq_name followed by the pool's display name
PoolFqName == [p \in PoolIds |-> ProjectFqName["t1"] \o <<"pool-" \o p>>]
VnetFqName == [n \in NetIds |-> <<"default-domain", "proj-t1", "vn-" \o n>>]
PoolSubnetId == [p \in PoolIds |-> IF p = "p1" THEN "subnet-A" ELSE "subnet-B"]
SubnetNetworkId == [s \in {"subnet-A", "subnet-B"} |-> IF s = "subnet-A" THEN "netA" ELSE "netB"]

\* every qualified name a service instance of this model can have
SiNames == {ProjectFqName[t] \o <<p>> : t \in ExistingProjects, p \in PoolIds}

(* ------------------------------------------------------------------ *)
(* Values                                                              *)
(* ------------------------------------------------------------------ *)
\* ServiceInstanceType(): the three fields the driver uses, all unset
ServiceInstanceType == [right_virtual_network |-> None, right_ip_address |-> None,
                        left_virtual_network |-> None]

NoSi == [exists |-> FALSE, uuid |-> 0, props |-> ServiceInstanceType, tmpl |-> None]

\* one call on self._api: the method, its key (an id or an fq_name) and
\* whether it returned (TRUE) or raised (FALSE)
Call(api_name, key, ok) == [api |-> api_name, key |-> key, ok |-> ok]

WriteApis == {"service_instance_create", "service_instance_update",
              "service_instance_delete", "loadbalancer_pool_update"}

RECURSIVE Writes(_)
Writes(calls) ==
    IF calls = <<>> THEN <<>>
    ELSE IF Head(calls).api \in WriteApis THEN <<Head(calls)>> \o Writes(Tail(calls))
    ELSE Writes(Tail(calls))

RECURSIVE CallsOf(_, _)
CallsOf(calls, api_name) ==
    IF calls = <<>> THEN <<>>
    ELSE IF Head(calls).api = api_name THEN <<Head(calls)>> \o CallsOf(Tail(calls), api_name)
    ELSE CallsOf(Tail(calls), api_name)

\* sep.join(seq) of Python, on a sequence of strings
RECURSIVE Join(_, _)
Join(seq, sep) ==
    IF seq = <<>> THEN ""
    ELSE IF Len(seq) = 1 THEN seq[1]
    ELSE seq[1] \o sep \o Join(Tail(seq), sep)

(* ------------------------------------------------------------------ *)
(* State                                                               *)
(* ------------------------------------------------------------------ *)
VARIABLES
    api,          \* the remote object store behind self._api
    lb_template,  \* self._lb_template
    tmpl_reads,   \* successful service_template_read calls of this adapter instance
    last,         \* the handler call that produced this state
    env_steps     \* changes made to the remote store from outside so far

vars == <<api, lb_template, tmpl_reads, last, env_steps>>

NoCall == [op |-> "none", pool |-> None, vip |-> None, tenant |-> None,
           old_pool |-> None, exc |-> "ok", calls |-> <<>>]

Init ==
    /\ api = [pool_exists |-> [p \in PoolIds |-> TRUE],
              pool_si_refs |-> [p \in PoolIds |-> <<>>],
              vip_exists |-> [v \in VipIds |-> TRUE],
              vip_vmi_refs |-> [v \in VipIds |-> <<"vmi1">>],
              vmis |-> VmiIds,
              vmi_vnet_refs |-> [i \in VmiIds |-> <<"netA">>],
              vmi_ip_refs |-> [i \in VmiIds |-> <<"iip1">>],
              iips |-> IipIds,
              iip_addr |-> [i \in IipIds |-> "10.0.0.5"],
              vnets |-> NetIds,
              si |-> [n \in SiNames |-> NoSi],
              si_refd |-> {},
              tmpl_exists |-> TRUE]
    /\ lb_template = None
    /\ tmpl_reads = 0
    /\ last = NoCall
    /\ env_steps = 0

(* ------------------------------------------------------------------ *)
(* The driver's methods, as functions of the adapter-and-store state   *)
(*   st = [api, lb_template, tmpl_reads]                               *)
(* returning [st, calls, exc]: the state they leave, the calls they    *)
(* made on self._api and the exception that escapes ("ok" for none)    *)
(* ------------------------------------------------------------------ *)
Ret(st, calls, exc) == [st |-> st, calls |-> calls, exc |-> exc]

\* the object service_template_read returns
TemplateObj == Join(LOADBALANCER_SERVICE_TEMPLATE, ":")

\* as _get_template, but without the test of the cache: every call reads
_get_template_reread(st) ==
    IF st.api.tmpl_exists
    THEN Ret([st EXCEPT !.lb_template = TemplateObj, !.tmpl_reads = @ + 1],
             <<Call("service_template_read", LOADBALANCER_SERVICE_TEMPLATE, TRUE)>>,
             "ok")
    ELSE Ret(st,
             <<Call("service_template_read", LOADBALANCER_SERVICE_TEMPLATE, FALSE)>>,
             "NameError")

_get_template(st) ==
    IF st.lb_template # None THEN Ret(st, <<>>, "ok")
    ELSE IF st.api.tmpl_exists
         THEN Ret([st EXCEPT !.lb_template = TemplateObj, !.tmpl_reads = @ + 1],
                  <<Call("service_template_read", LOADBALANCER_SERVICE_TEMPLATE, TRUE)>>,
                  "ok")
         \* the handler of NoIdError formats its message with pool_id, a name
         \* that is bound neither in _get_template nor in the module
         ELSE Ret(st,
                  <<Call("service_template_read", LOADBALANCER_SERVICE_TEMPLATE, FALSE)>>,
                  "NameError")

\* [vmi, calls]: the interface id, or None
_get_virtual_ip_interface(a, vip_id) ==
    LET vmi_list == a.vip_vmi_refs[vip_id] IN
    IF vmi_list = <<>> THEN [vmi |-> None, calls |-> <<>>]
    ELSE IF vmi_list[1] \notin a.vmis
         THEN [vmi |-> None,
               calls |-> <<Call("virtual_machine_interface_read", <<vmi_list[1]>>, FALSE)>>]
         ELSE [vmi |-> vmi_list[1],
               calls |-> <<Call("virtual_machine_interface_read", <<vmi_list[1]>>, TRUE)>>]

\* as _get_interface_address, but an instance-ip that cannot be read yields the
\* empty address instead of None
_get_interface_address_empty(a, vmi) ==
    LET ip_refs == a.vmi_ip_refs[vmi] IN
    IF ip_refs = <<>> THEN [addr |-> "", calls |-> <<>>]
    ELSE IF ip_refs[1] \notin a.iips
         THEN [addr |-> "", calls |-> <<Call("instance_ip_read", <<ip_refs[1]>>, FALSE)>>]
         ELSE [addr |-> a.iip_addr[ip_refs[1]],
               calls |-> <<Call("instance_ip_read", <<ip_refs[1]>>, TRUE)>>]

\* [addr, calls]: the address of the interface's first instance-ip, or None
_get_interface_address(a, vmi) ==
    LET ip_refs == a.vmi_ip_refs[vmi] IN
    IF ip_refs = <<>> THEN [addr |-> None, calls |-> <<>>]
    ELSE IF ip_refs[1] \notin a.iips
         THEN [addr |-> None, calls |-> <<Call("instance_ip_read", <<ip_refs[1]>>, FALSE)>>]
         ELSE [addr |-> a.iip_addr[ip_refs[1]],
               calls |-> <<Call("instance_ip_read", <<ip_refs[1]>>, TRUE)>>]

\* lst.join(sep): the attribute lookup on a Python list; list has no join,
\* so the expression raises AttributeError whatever lst and sep are
list_join(lst, sep) == [exc |-> "AttributeError", val |-> None]

\* utils.get_subnet_network_id: the id of the network that owns the subnet
get_subnet_network_id(subnet_id) == SubnetNetworkId[subnet_id]

\* [kind, props, calls]; kind is "props" (a record is returned), "None"
\* (None is returned) or the name of the exception that escapes
_calculate_instance_properties(a, pool_id, vip_id) ==
    LET props == ServiceInstanceType
        r1 == _get_virtual_ip_interface(a, vip_id)
    IN
    IF r1.vmi = None THEN [kind |-> "None", props |-> props, calls |-> r1.calls]
    ELSE
    LET vnet_refs == a.vmi_vnet_refs[r1.vmi] IN
    IF vnet_refs = <<>> THEN [kind |-> "None", props |-> props, calls |-> r1.calls]
    ELSE
    LET props2 == [props EXCEPT !.right_virtual_network = Join(VnetFqName[vnet_refs[1]], ":")]
        r2 == _get_interface_address(a, r1.vmi)
        props3 == [props2 EXCEPT !.right_ip_address = r2.addr]
        calls2 == r1.calls \o r2.calls
    IN
    IF props3.right_ip_address = None
    THEN [kind |-> "None", props |-> props3, calls |-> calls2]
    ELSE
    LET backnet_id == get_subnet_network_id(PoolSubnetId[pool_id]) IN
    IF backnet_id # vnet_refs[1]
    THEN IF backnet_id \notin a.vnets
         THEN [kind |-> "None", props |-> props3,
               calls |-> calls2 \o <<Call("virtual_network_read", <<backnet_id>>, FALSE)>>]
         ELSE LET j == list_join(VnetFqName[backnet_id], ":")
                  calls3 == calls2 \o <<Call("virtual_network_read", <<backnet_id>>, TRUE)>>
              IN
              IF j.exc # "ok"
              THEN [kind |-> j.exc, props |-> props3, calls |-> calls3]
              ELSE [kind |-> "props",
                    props |-> [props3 EXCEPT !.left_virtual_network = j.val],
                    calls |-> calls3]
    ELSE [kind |-> "props", props |-> props3, calls |-> calls2]

\* as _service_instance_update_props, but reporting a difference always
_service_instance_update_props_always(current, nprops) == TRUE

\* TRUE iff one of the three fields of the stored record differs from nprops
_service_instance_update_props(current, nprops) ==
    \/ current.right_virtual_network # nprops.right_virtual_network
    \/ current.right_ip_address # nprops.right_ip_address
    \/ current.left_virtual_network # nprops.left_virtual_network

\* self._api.service_instance_delete(fq_name=...): [api, exc]
service_instance_delete(a, fq_name) ==
    IF ~(fq_name \in DOMAIN a.si /\ a.si[fq_name].exists)
    THEN [api |-> a, exc |-> "NoIdError"]
    ELSE IF fq_name \in a.si_refd
    THEN [api |-> a, exc |-> "RefsExistError"]
    ELSE [api |-> [a EXCEPT !.si[fq_name] = NoSi], exc |-> "ok"]

\* the uuid service_instance_create gives the new instance: one that no
\* instance has and no pool refers to
FreshUuid(a) ==
    CHOOSE u \in 1..(2 * Cardinality(PoolIds) + 1) :
        /\ \A n \in DOMAIN a.si : ~(a.si[n].exists /\ a.si[n].uuid = u)
        /\ \A p \in PoolIds : a.pool_si_refs[p] # <<u>>
        /\ \A w \in 1..(u - 1) :
              \/ \E n \in DOMAIN a.si : a.si[n].exists /\ a.si[n].uuid = w
              \/ \E p \in PoolIds : a.pool_si_refs[p] = <<w>>

\* pool.get_fq_name()[:-1] followed by pool_id
ReconcileFqName(pool_id) ==
    SubSeq(PoolFqName[pool_id], 1, Len(PoolFqName[pool_id]) - 1) \o <<pool_id>>

\* as PoolNeedsUpdate, but only a pool without a reference is updated
PoolNeedsUpdate_unset(si_refs, uuid) == si_refs = <<>>

\* si_refs is None or si_refs[0]['uuid'] != si_obj.uuid
PoolNeedsUpdate(si_refs, uuid) == si_refs = <<>> \/ si_refs[1] # uuid

\* _update_loadbalancer_instance from fq_name = ... on, with pool and vip read;
\* fetched holds the two reads
UpdateFetched(st, pool_id, vip_id, fetched) ==
    LET a == st.api
        fq_name == ReconcileFqName(pool_id)
        cp == _calculate_instance_properties(a, pool_id, vip_id)
        calls1 == fetched \o cp.calls
    IN
    IF cp.kind = "None"
    THEN LET d == service_instance_delete(a, fq_name) IN
         Ret([st EXCEPT !.api = d.api],
             calls1 \o <<Call("service_instance_delete", fq_name, d.exc = "ok")>>,
             IF d.exc = "RefsExistError" THEN "ok" ELSE d.exc)
    ELSE IF cp.kind # "props" THEN Ret(st, calls1, cp.kind)
    ELSE
    LET t == _get_template(st) IN
    IF t.exc # "ok" THEN Ret(t.st, calls1 \o t.calls, t.exc)
    ELSE
    LET a2 == t.st.api
        found == a2.si[fq_name].exists
        c_read == Call("service_instance_read", fq_name, found)
        update == found /\ _service_instance_update_props(a2.si[fq_name].props, cp.props)
        si_obj == IF found
                  THEN [a2.si[fq_name] EXCEPT !.props = cp.props]
                  ELSE [exists |-> TRUE, uuid |-> FreshUuid(a2), props |-> cp.props,
                        tmpl |-> t.st.lb_template]
        a3 == IF found
              THEN IF update THEN [a2 EXCEPT !.si[fq_name] = si_obj] ELSE a2
              ELSE [a2 EXCEPT !.si[fq_name] = si_obj]
        calls2 == calls1 \o t.calls \o <<c_read>> \o
                  (IF found
                   THEN IF update THEN <<Call("service_instance_update", fq_name, TRUE)>>
                        ELSE <<>>
                   ELSE <<Call("service_instance_create", fq_name, TRUE)>>)
        si_refs == a.pool_si_refs[pool_id]
        assoc == PoolNeedsUpdate(si_refs, si_obj.uuid)
    IN
    IF assoc
    THEN Ret([t.st EXCEPT !.api = [a3 EXCEPT !.pool_si_refs[pool_id] = <<si_obj.uuid>>]],
             calls2 \o <<Call("loadbalancer_pool_update", <<pool_id>>, TRUE)>>, "ok")
    ELSE Ret([t.st EXCEPT !.api = a3], calls2, "ok")

\* as _update_loadbalancer_instance, but the error for a missing pool names the
\* resource 'vip'
_update_loadbalancer_instance_vip(st, pool_id, vip_id) ==
    LET a == st.api
        c_pool == Call("loadbalancer_pool_read", <<pool_id>>, a.pool_exists[pool_id])
        c_vip == Call("virtual_ip_read", <<vip_id>>, a.vip_exists[vip_id])
    IN
    IF ~a.pool_exists[pool_id] THEN Ret(st, <<c_pool>>, "BadRequest:vip")
    ELSE IF ~a.vip_exists[vip_id] THEN Ret(st, <<c_pool, c_vip>>, "BadRequest:vip")
    ELSE UpdateFetched(st, pool_id, vip_id, <<c_pool, c_vip>>)

_update_loadbalancer_instance(st, pool_id, vip_id) ==
    LET a == st.api
        c_pool == Call("loadbalancer_pool_read", <<pool_id>>, a.pool_exists[pool_id])
        c_vip == Call("virtual_ip_read", <<vip_id>>, a.vip_exists[vip_id])
    IN
    IF ~a.pool_exists[pool_id] THEN Ret(st, <<c_pool>>, "BadRequest:pool")
    ELSE IF ~a.vip_exists[vip_id] THEN Ret(st, <<c_pool, c_vip>>, "BadRequest:vip")
    ELSE UpdateFetched(st, pool_id, vip_id, <<c_pool, c_vip>>)

\* as ClearFound, but with the name of the instance ending in the last segment
\* of the pool's own name, not in pool_id
ClearFound_pool_name(st, tenant_id, pool_id, c_proj) ==
    LET fq_name == ProjectFqName[tenant_id]
                   \o <<PoolFqName[pool_id][Len(PoolFqName[pool_id])]>>
        d == service_instance_delete(st.api, fq_name)
    IN
    Ret([st EXCEPT !.api = d.api],
        <<c_proj, Call("service_instance_delete", fq_name, d.exc = "ok")>>,
        IF d.exc = "RefsExistError" THEN "ok" ELSE d.exc)

\* as ClearFound, but without the except clause for RefsExistError: the error of
\* the delete reaches the caller
ClearFound_raise(st, tenant_id, pool_id, c_proj) ==
    LET fq_name == ProjectFqName[tenant_id] \o <<pool_id>>
        d == service_instance_delete(st.api, fq_name)
    IN
    Ret([st EXCEPT !.api = d.api],
        <<c_proj, Call("service_instance_delete", fq_name, d.exc = "ok")>>,
        d.exc)

\* the call that would have left r, cut short after service_instance_create or
\* service_instance_update has taken effect and before the pool is updated: the
\* store of r with the pool's reference as it was in st. A call that does not
\* come to write the instance is not cut short and leaves r
CutShort(st, pool_id, r) ==
    IF /\ r.exc = "ok"
       /\ \E i \in 1..Len(r.calls) :
             r.calls[i].api \in {"service_instance_create", "service_instance_update"}
    THEN Ret([r.st EXCEPT !.api.pool_si_refs[pool_id] = st.api.pool_si_refs[pool_id]],
             IF r.calls[Len(r.calls)].api = "loadbalancer_pool_update"
             THEN SubSeq(r.calls, 1, Len(r.calls) - 1)
             ELSE r.calls,
             "Interrupted")
    ELSE r

_update_loadbalancer_instance_interrupted(st, pool_id, vip_id) ==
    CutShort(st, pool_id, _update_loadbalancer_instance(st, pool_id, vip_id))

\* _clear_loadbalancer_instance from fq_name = ... on, with the project read
ClearFound(st, tenant_id, pool_id, c_proj) ==
    LET fq_name == ProjectFqName[tenant_id] \o <<pool_id>>
        d == service_instance_delete(st.api, fq_name)
    IN
    Ret([st EXCEPT !.api = d.api],
        <<c_proj, Call("service_instance_delete", fq_name, d.exc = "ok")>>,
        IF d.exc = "RefsExistError" THEN "ok" ELSE d.exc)

\* as _clear_loadbalancer_instance, but without the return after the log of
\* NoIdError: the next statement reads project, which is not bound
_clear_loadbalancer_instance_noreturn(st, tenant_id, pool_id) ==
    LET found == tenant_id \in ExistingProjects
        c_proj == Call("project_read", <<tenant_id>>, found)
    IN
    IF ~found THEN Ret(st, <<c_proj>>, "UnboundLocalError")
    ELSE ClearFound(st, tenant_id, pool_id, c_proj)

_clear_loadbalancer_instance(st, tenant_id, pool_id) ==
    LET found == tenant_id \in ExistingProjects
        c_proj == Call("project_read", <<tenant_id>>, found)
    IN
    IF ~found THEN Ret(st, <<c_proj>>, "ok")
    ELSE ClearFound(st, tenant_id, pool_id, c_proj)

\* a call that returned (r) followed by the call that left r2
After(r, r2) == Ret(r2.st, r.calls \o r2.calls, r2.exc)

Pass(st) == Ret(st, <<>>, "ok")

\* as create_vip, but without the call of the reconciler
create_vip_template_only(st, vip) == _get_template(st)

\* the handlers; vip and pool are the dictionaries Neutron passes in
create_vip(st, vip) ==
    LET t == _get_template(st) IN
    IF t.exc # "ok" THEN t
    ELSE IF vip.pool_id # None
    THEN After(t, _update_loadbalancer_instance(t.st, vip.pool_id, vip.id))
    ELSE t

\* as update_vip, but a VIP that moves from one pool to another has the old
\* pool torn down before the new one is reconciled
update_vip_move(st, old_vip, vip) ==
    IF vip.pool_id # None
    THEN IF old_vip.pool_id # None /\ old_vip.pool_id # vip.pool_id
         THEN LET c == _clear_loadbalancer_instance(st, old_vip.tenant_id, old_vip.pool_id)
              IN IF c.exc # "ok" THEN c
                 ELSE After(c, _update_loadbalancer_instance(c.st, vip.pool_id, vip.id))
         ELSE _update_loadbalancer_instance(st, vip.pool_id, vip.id)
    ELSE IF old_vip.pool_id # None
    THEN _clear_loadbalancer_instance(st, old_vip.tenant_id, old_vip.pool_id)
    ELSE Pass(st)

update_vip(st, old_vip, vip) ==
    IF vip.pool_id # None THEN _update_loadbalancer_instance(st, vip.pool_id, vip.id)
    ELSE IF old_vip.pool_id # None
    THEN _clear_loadbalancer_instance(st, old_vip.tenant_id, old_vip.pool_id)
    ELSE Pass(st)

\* as delete_vip, but without the test of vip['pool_id']
delete_vip_always(st, vip) ==
    _clear_loadbalancer_instance(st, vip.tenant_id, vip.pool_id)

delete_vip(st, vip) ==
    IF vip.pool_id # None
    THEN _clear_loadbalancer_instance(st, vip.tenant_id, vip.pool_id)
    ELSE Pass(st)

create_pool(st, pool) ==
    LET t == _get_template(st) IN
    IF t.exc # "ok" THEN t
    ELSE IF pool.vip_id # None
    THEN After(t, _update_loadbalancer_instance(t.st, pool.id, pool.vip_id))
    ELSE t

update_pool(st, old_pool, pool) ==
    IF pool.vip_id # None THEN _update_loadbalancer_instance(st, pool.id, pool.vip_id)
    ELSE _clear_loadbalancer_instance(st, pool.tenant_id, pool.id)

\* as delete_pool, but tearing down only a pool that has a VIP
delete_pool_if_vip(st, pool) ==
    IF pool.vip_id # None
    THEN _clear_loadbalancer_instance(st, pool.tenant_id, pool.id)
    ELSE Pass(st)

delete_pool(st, pool) == _clear_loadbalancer_instance(st, pool.tenant_id, pool.id)

\* the handlers whose body is pass
stats(st, pool_id) == Pass(st)

\* as create_member, but getting the template first, as create_pool does
create_member_template(st, member) == _get_template(st)

create_member(st, member) == Pass(st)

update_member(st, old_member, member) == Pass(st)

delete_member(st, member) == Pass(st)

update_pool_health_monitor(st, old_health_monitor, health_monitor, pool_id) == Pass(st)

create_pool_health_monitor(st, health_monitor, pool_id) == Pass(st)

delete_pool_health_monitor(st, health_monitor, pool_id) == Pass(st)

(* ------------------------------------------------------------------ *)
(* Actions: one call of a method of the driver                         *)
(* ------------------------------------------------------------------ *)
St == [api |-> api, lb_template |-> lb_template, tmpl_reads |-> tmpl_reads]

\* the call returns or raises, leaving r.st
Finish(op, pool_id, vip_id, tenant_id, old_pool_id, r) ==
    /\ api' = r.st.api
    /\ lb_template' = r.st.lb_template
    /\ tmpl_reads' = r.st.tmpl_reads
    /\ last' = [op |-> op, pool |-> pool_id, vip |-> vip_id, tenant |-> tenant_id,
                old_pool |-> old_pool_id, exc |-> r.exc, calls |-> r.calls]
    /\ UNCHANGED env_steps

VipDict(id, pool_id, tenant_id) == [id |-> id, pool_id |-> pool_id, tenant_id |-> tenant_id]
PoolDict(id, vip_id, tenant_id) == [id |-> id, vip_id |-> vip_id, tenant_id |-> tenant_id]

UpdateLoadbalancerInstance ==
    \E p \in PoolIds, v \in VipIds :
        Finish("_update_loadbalancer_instance", p, v, None, None,
               _update_loadbalancer_instance(St, p, v))

ClearLoadbalancerInstance ==
    \E t \in TenantIds, p \in PoolIds :
        Finish("_clear_loadbalancer_instance", p, None, t, None,
               _clear_loadbalancer_instance(St, t, p))

\* a fault cuts a call short and leaves r; faults share the budget of the
\* changes that others make to the store
FinishCutShort(op, pool_id, vip_id, r) ==
    /\ env_steps < MaxEnv
    /\ r.exc = "Interrupted"
    /\ env_steps' = env_steps + 1
    /\ api' = r.st.api
    /\ lb_template' = r.st.lb_template
    /\ tmpl_reads' = r.st.tmpl_reads
    /\ last' = [op |-> op, pool |-> pool_id, vip |-> vip_id, tenant |-> None,
                old_pool |-> None, exc |-> r.exc, calls |-> r.calls]

\* a call of _update_loadbalancer_instance that wrote the instance is cut short
\* (the connection to the store is lost) before the pool update
UpdateLoadbalancerInstanceInterrupted ==
    \E p \in PoolIds, v \in VipIds :
        FinishCutShort("_update_loadbalancer_instance_interrupted", p, v,
                       _update_loadbalancer_instance_interrupted(St, p, v))

CreateVip ==
    \E v \in VipIds, p \in PoolIds \cup {None} :
        Finish("create_vip", p, v, "t1", None, create_vip(St, VipDict(v, p, "t1")))

UpdateVip ==
    \E v \in VipIds, old \in PoolIds \cup {None}, p \in PoolIds \cup {None}, t \in TenantIds :
        Finish("update_vip", p, v, t, old,
               update_vip(St, VipDict(v, old, t), VipDict(v, p, t)))

DeleteVip ==
    \E v \in VipIds, p \in PoolIds \cup {None}, t \in TenantIds :
        Finish("delete_vip", p, v, t, None, delete_vip(St, VipDict(v, p, t)))

CreatePool ==
    \E p \in PoolIds, v \in VipIds \cup {None} :
        Finish("create_pool", p, v, "t1", None, create_pool(St, PoolDict(p, v, "t1")))

UpdatePool ==
    \E p \in PoolIds, v \in VipIds \cup {None}, t \in TenantIds :
        Finish("update_pool", p, v, t, None,
               update_pool(St, PoolDict(p, None, t), PoolDict(p, v, t)))

DeletePool ==
    \E p \in PoolIds, v \in VipIds \cup {None}, t \in TenantIds :
        Finish("delete_pool", p, v, t, None, delete_pool(St, PoolDict(p, v, t)))

MemberIds == {"m1"}
MonitorIds == {"hm1"}
MemberDict(id, pool_id) == [id |-> id, pool_id |-> pool_id]
MonitorDict(id, type) == [id |-> id, type |-> type]

Stats ==
    \E p \in PoolIds : Finish("stats", None, None, None, None, stats(St, p))

CreateMember ==
    \E m \in MemberIds, p \in PoolIds :
        Finish("create_member", None, None, None, None,
               create_member(St, MemberDict(m, p)))

UpdateMember ==
    \E m \in MemberIds, old \in PoolIds, p \in PoolIds :
        Finish("update_member", None, None, None, None,
               update_member(St, MemberDict(m, old), MemberDict(m, p)))

DeleteMember ==
    \E m \in MemberIds, p \in PoolIds :
        Finish("delete_member", None, None, None, None,
               delete_member(St, MemberDict(m, p)))

UpdatePoolHealthMonitor ==
    \E h \in MonitorIds, p \in PoolIds :
        Finish("update_pool_health_monitor", None, None, None, None,
               update_pool_health_monitor(St, MonitorDict(h, "PING"),
                                          MonitorDict(h, "HTTP"), p))

CreatePoolHealthMonitor ==
    \E h \in MonitorIds, p \in PoolIds :
        Finish("create_pool_health_monitor", None, None, None, None,
               create_pool_health_monitor(St, MonitorDict(h, "PING"), p))

DeletePoolHealthMonitor ==
    \E h \in MonitorIds, p \in PoolIds :
        Finish("delete_pool_health_monitor", None, None, None, None,
               delete_pool_health_monitor(St, MonitorDict(h, "PING"), p))

\* __init__: a new adapter instance takes over (the process restarts)
Restart ==
    /\ env_steps < MaxEnv
    /\ env_steps' = env_steps + 1
    /\ lb_template' = None
    /\ tmpl_reads' = 0
    /\ last' = NoCall
    /\ UNCHANGED api

(* ------------------------------------------------------------------ *)
(* Actions: the remote store changes under the adapter                 *)
(* ------------------------------------------------------------------ *)
Env(a) ==
    /\ env_steps < MaxEnv
    /\ env_steps' = env_steps + 1
    /\ a # api
    /\ api' = a
    /\ last' = NoCall
    /\ UNCHANGED <<lb_template, tmpl_reads>>

\* a pool is deleted (with its references) or created
EnvPool ==
    \E p \in PoolIds :
        Env([api EXCEPT !.pool_exists[p] = ~@, !.pool_si_refs[p] = <<>>])

EnvVip ==
    \E v \in VipIds : Env([api EXCEPT !.vip_exists[v] = ~@])

\* the VIP's port is bound or unbound
EnvVipInterface ==
    \E v \in VipIds, refs \in {<<>>} \cup {<<i>> : i \in VmiIds} :
        Env([api EXCEPT !.vip_vmi_refs[v] = refs])

EnvVmi ==
    \E i \in VmiIds :
        Env([api EXCEPT !.vmis = IF i \in @ THEN @ \ {i} ELSE @ \cup {i}])

EnvVmiNetwork ==
    \E i \in VmiIds, refs \in {<<>>} \cup {<<n>> : n \in NetIds} :
        Env([api EXCEPT !.vmi_vnet_refs[i] = refs])

EnvVmiAddress ==
    \E i \in VmiIds, refs \in {<<>>} \cup {<<ip>> : ip \in IipIds} :
        Env([api EXCEPT !.vmi_ip_refs[i] = refs])

EnvIip ==
    \E ip \in IipIds :
        \/ Env([api EXCEPT !.iips = IF ip \in @ THEN @ \ {ip} ELSE @ \cup {ip}])
        \/ \E addr \in Addrs : Env([api EXCEPT !.iip_addr[ip] = addr])

EnvVnet ==
    \E n \in NetIds :
        Env([api EXCEPT !.vnets = IF n \in @ THEN @ \ {n} ELSE @ \cup {n}])

\* another resource starts or stops referring to a service instance
EnvSiRef ==
    \E n \in SiNames :
        /\ api.si[n].exists
        /\ api' = [api EXCEPT !.si_refd = IF n \in @ THEN @ \ {n} ELSE @ \cup {n}]
        /\ last' = NoCall
        /\ UNCHANGED <<lb_template, tmpl_reads, env_steps>>

EnvTemplate == Env([api EXCEPT !.tmpl_exists = ~@])

Next ==
    \/ UpdateLoadbalancerInstance
    \/ ClearLoadbalancerInstance
    \/ UpdateLoadbalancerInstanceInterrupted
    \/ CreateVip
    \/ UpdateVip
    \/ DeleteVip
    \/ CreatePool
    \/ UpdatePool
    \/ DeletePool
    \/ Stats
    \/ CreateMember
    \/ UpdateMember
    \/ DeleteMember
    \/ UpdatePoolHealthMonitor
    \/ CreatePoolHealthMonitor
    \/ DeletePoolHealthMonitor
    \/ Restart
    \/ EnvPool
    \/ EnvVip
    \/ EnvVipInterface
    \/ EnvVmi
    \/ EnvVmiNetwork
    \/ EnvVmiAddress
    \/ EnvIip
    \/ EnvVnet
    \/ EnvSiRef
    \/ EnvTemplate

Spec == Init /\ [][Next]_vars

(* ------------------------------------------------------------------ *)
(* Vocabulary of the properties                                        *)
(* ------------------------------------------------------------------ *)
Reconcile == "_update_loadbalancer_instance"
Clear == "_clear_loadbalancer_instance"

NumCalls(calls, api_name) == Len(CallsOf(calls, api_name))

\* the calls that write a service instance
SiWrites(calls) ==
    NumCalls(calls, "service_instance_create") + NumCalls(calls, "service_instance_update")
    + NumCalls(calls, "service_instance_delete")

\* the VIP's interface, the interface's network and the interface's address
\* can all be resolved in store a
VipResolvable(a, v) ==
    /\ a.vip_vmi_refs[v] # <<>>
    /\ a.vip_vmi_refs[v][1] \in a.vmis
    /\ a.vmi_vnet_refs[a.vip_vmi_refs[v][1]] # <<>>
    /\ a.vmi_ip_refs[a.vip_vmi_refs[v][1]] # <<>>
    /\ a.vmi_ip_refs[a.vip_vmi_refs[v][1]][1] \in a.iips

\* the network of the VIP's interface and the network of the pool's subnet
VipNet(a, v) == a.vmi_vnet_refs[a.vip_vmi_refs[v][1]][1]
BackNet(p) == get_subnet_network_id(PoolSubnetId[p])
TwoArm(a, p, v) == BackNet(p) # VipNet(a, v)

\* the pool/VIP pair has a configuration: the VIP resolves and, in the two-arm
\* topology, the backend network can be read
Computable(a, p, v) ==
    /\ VipResolvable(a, v)
    /\ TwoArm(a, p, v) => BackNet(p) \in a.vnets

\* the properties the service instance of a pair with a configuration is to have
DesiredProps(a, p, v) ==
    [right_virtual_network |-> Join(VnetFqName[VipNet(a, v)], ":"),
     right_ip_address |-> a.iip_addr[a.vmi_ip_refs[a.vip_vmi_refs[v][1]][1]],
     left_virtual_network |-> IF TwoArm(a, p, v)
                              THEN Join(VnetFqName[BackNet(p)], ":")
                              ELSE None]

\* the template is cached or can be read
TemplateAvailable == lb_template # None \/ api.tmpl_exists

\* the call in last ran the reconciler for (last.pool, last.vip)
RanReconcile ==
    \/ last.op = Reconcile
    \/ /\ last.op \in {"create_vip", "update_vip", "create_pool", "update_pool"}
       /\ last.pool # None
       /\ last.vip # None

\* the call in last ran the teardown for ClearedPool
RanClear ==
    \/ last.op \in {Clear, "delete_pool"}
    \/ last.op = "update_pool" /\ last.vip = None
    \/ last.op = "delete_vip" /\ last.pool # None
    \/ last.op = "update_vip" /\ last.pool = None /\ last.old_pool # None

ClearedPool == IF last.op = "update_vip" THEN last.old_pool ELSE last.pool

\* the same call as in the step before, with nothing in between
SameCallAgain(op) ==
    /\ last.op = op
    /\ last'.op = op
    /\ last'.pool = last.pool
    /\ last'.vip = last.vip
    /\ last'.tenant = last.tenant

(* ------------------------------------------------------------------ *)
(* C1                                                                  *)
(* ------------------------------------------------------------------ *)
\* C1, as stated: of two calls of _update_loadbalancer_instance(pool_id, vip_id)
\* in a row, the first issues at most one remote write and the second none.
C1_AtMostOneWriteThenNone ==
    [][SameCallAgain(Reconcile) =>
          /\ Len(Writes(last.calls)) <= 1
          /\ Writes(last'.calls) = <<>>]_vars

\* C1, amended: of two calls of _update_loadbalancer_instance(pool_id, vip_id) in a
\* row, the first issues at most two remote writes (at most one of
\* service_instance_create, _update, _delete, then at most one
\* loadbalancer_pool_update, which comes last), and the second changes neither the
\* remote state nor the template cache and issues no remote write other than the
\* service_instance_delete that every call without a configuration issues.
C1_ReconcileIdempotent ==
    [][SameCallAgain(Reconcile) =>
          /\ Len(Writes(last.calls)) <= 2
          /\ SiWrites(last.calls) <= 1
          /\ NumCalls(last.calls, "loadbalancer_pool_update") <= 1
          /\ NumCalls(last.calls, "loadbalancer_pool_update") = 1
                => last.calls[Len(last.calls)].api = "loadbalancer_pool_update"
          /\ api' = api
          /\ lb_template' = lb_template
          /\ Len(Writes(last'.calls)) = NumCalls(last'.calls, "service_instance_delete")
          /\ \A i \in 1..Len(last'.calls) :
                last'.calls[i].api = "service_instance_delete"
                => /\ ~last'.calls[i].ok
                   /\ NumCalls(last.calls, "service_instance_delete") = 1]_vars

\* a call that found the instance it had created and associated: no write
C1_Witness ==
    /\ last.op = Reconcile
    /\ last.exc = "ok"
    /\ Writes(last.calls) = <<>>
    /\ api.si[ReconcileFqName(last.pool)].exists
    /\ api.pool_si_refs[last.pool] = <<api.si[ReconcileFqName(last.pool)].uuid>>

(* ------------------------------------------------------------------ *)
(* C2                                                                  *)
(* ------------------------------------------------------------------ *)
\* C2, as stated: when the VIP's interface, its network or its address cannot be
\* resolved, after _update_loadbalancer_instance returns no service instance
\* exists at the pool's name and no create, update or pool update was issued.
C2_NoConfigurationImpliesAbsence ==
    (/\ last.op = Reconcile
     /\ last.exc = "ok"
     /\ ~VipResolvable(api, last.vip))
    => /\ ~api.si[ReconcileFqName(last.pool)].exists
       /\ NumCalls(last.calls, "service_instance_create") = 0
       /\ NumCalls(last.calls, "service_instance_update") = 0
       /\ NumCalls(last.calls, "loadbalancer_pool_update") = 0

\* C2, amended: when the VIP's interface, its network or its address cannot be
\* resolved, after _update_loadbalancer_instance returns normally no service
\* instance exists at the pool's name, unless the delete was refused because other
\* resources still refer to the instance, in which case the remote state is as it
\* was before the call; and no create, update or pool update was issued.
C2_AbsentUnlessReferenced ==
    [][(/\ last'.op = Reconcile
        /\ last'.exc = "ok"
        /\ ~VipResolvable(api, last'.vip))
       => /\ IF ReconcileFqName(last'.pool) \in api.si_refd
             THEN api' = api /\ NumCalls(last'.calls, "service_instance_delete") = 1
             ELSE ~api'.si[ReconcileFqName(last'.pool)].exists
          /\ NumCalls(last'.calls, "service_instance_create") = 0
          /\ NumCalls(last'.calls, "service_instance_update") = 0
          /\ NumCalls(last'.calls, "loadbalancer_pool_update") = 0]_vars

\* an existing instance was deleted because the VIP could not be resolved
C2_Witness ==
    /\ last.op = Reconcile
    /\ last.exc = "ok"
    /\ ~VipResolvable(api, last.vip)
    /\ \E i \in 1..Len(last.calls) :
          last.calls[i].api = "service_instance_delete" /\ last.calls[i].ok
    /\ ~api.si[ReconcileFqName(last.pool)].exists

(* ------------------------------------------------------------------ *)
(* C3                                                                  *)
(* ------------------------------------------------------------------ *)
\* C3, as stated: once a lifecycle handler has run for a pool, a service instance
\* exists at the pool's name if and only if the pool exists and is associated
\* with a VIP whose interface, network and address resolve; after a teardown
\* (association severed, pool deleted) none exists.
C3_InstanceExistsIffResolvable ==
    /\ RanReconcile
          => (api.si[ReconcileFqName(last.pool)].exists
              <=> /\ api.pool_exists[last.pool]
                  /\ api.vip_exists[last.vip]
                  /\ VipResolvable(api, last.vip))
    /\ RanClear => ~api.si[ReconcileFqName(ClearedPool)].exists

(* ------------------------------------------------------------------ *)
(* C4                                                                  *)
(* ------------------------------------------------------------------ *)
\* C4, as stated: when an instance exists at the pool's name and the pair has a
\* configuration, _update_loadbalancer_instance issues exactly one
\* service_instance_update if one of the three fields differs from the desired
\* value, leaving all three desired values in the store, and none if all match.
C4_DriftTriggersOneUpdate ==
    [][(/\ last'.op = Reconcile
        /\ api.pool_exists[last'.pool]
        /\ api.vip_exists[last'.vip]
        /\ api.si[ReconcileFqName(last'.pool)].exists
        /\ Computable(api, last'.pool, last'.vip))
       => IF api.si[ReconcileFqName(last'.pool)].props
                # DesiredProps(api, last'.pool, last'.vip)
          THEN /\ NumCalls(last'.calls, "service_instance_update") = 1
               /\ api'.si[ReconcileFqName(last'.pool)].props
                     = DesiredProps(api, last'.pool, last'.vip)
          ELSE NumCalls(last'.calls, "service_instance_update") = 0]_vars

(* ------------------------------------------------------------------ *)
(* C5                                                                  *)
(* ------------------------------------------------------------------ *)
\* C5, as stated: when the pair has a configuration and no instance exists at the
\* pool's name, _update_loadbalancer_instance creates exactly one, with the desired
\* properties and the cached template; and after a call that returns normally
\* the pool refers to the instance at that name, a loadbalancer_pool_update being
\* issued exactly when the stored reference was absent or another.
C5_CreateAndAssociate ==
    [][(/\ last'.op = Reconcile
        /\ api.pool_exists[last'.pool]
        /\ api.vip_exists[last'.vip]
        /\ Computable(api, last'.pool, last'.vip))
       => /\ ~api.si[ReconcileFqName(last'.pool)].exists
                => /\ NumCalls(last'.calls, "service_instance_create") = 1
                   /\ api'.si[ReconcileFqName(last'.pool)].exists
                   /\ api'.si[ReconcileFqName(last'.pool)].props
                         = DesiredProps(api, last'.pool, last'.vip)
                   /\ api'.si[ReconcileFqName(last'.pool)].tmpl = TemplateObj
          /\ last'.exc = "ok"
                => /\ api'.si[ReconcileFqName(last'.pool)].exists
                   /\ api'.pool_si_refs[last'.pool]
                         = <<api'.si[ReconcileFqName(last'.pool)].uuid>>
                   /\ NumCalls(last'.calls, "loadbalancer_pool_update")
                         = IF api.pool_si_refs[last'.pool]
                                 = <<api'.si[ReconcileFqName(last'.pool)].uuid>>
                           THEN 0 ELSE 1]_vars

(* ------------------------------------------------------------------ *)
(* C6                                                                  *)
(* ------------------------------------------------------------------ *)
\* C6, as stated: with the VIP resolved, when the network of the pool's subnet
\* differs from the network of the VIP's interface and can be read, the instance
\* is created or updated with left_virtual_network the colon-joined name of the
\* backend network; when the networks are the same, left_virtual_network is left
\* unset; when the backend network cannot be read there is no configuration: the
\* delete branch is taken, and nothing is created or updated.
C6_TwoArmOrOneArm ==
    [][(/\ last'.op = Reconcile
        /\ api.pool_exists[last'.pool]
        /\ api.vip_exists[last'.vip]
        /\ VipResolvable(api, last'.vip))
       => /\ (/\ TwoArm(api, last'.pool, last'.vip)
              /\ BackNet(last'.pool) \in api.vnets
              /\ TemplateAvailable)
                => /\ last'.exc = "ok"
                   /\ api'.si[ReconcileFqName(last'.pool)].exists
                   /\ api'.si[ReconcileFqName(last'.pool)].props.left_virtual_network
                         = Join(VnetFqName[BackNet(last'.pool)], ":")
          /\ (~TwoArm(api, last'.pool, last'.vip) /\ last'.exc = "ok")
                => /\ api'.si[ReconcileFqName(last'.pool)].exists
                   /\ api'.si[ReconcileFqName(last'.pool)].props.left_virtual_network = None
          /\ (TwoArm(api, last'.pool, last'.vip) /\ BackNet(last'.pool) \notin api.vnets)
                => /\ NumCalls(last'.calls, "service_instance_delete") = 1
                   /\ NumCalls(last'.calls, "service_instance_create") = 0
                   /\ NumCalls(last'.calls, "service_instance_update") = 0]_vars

(* ------------------------------------------------------------------ *)
(* C7                                                                  *)
(* ------------------------------------------------------------------ *)
\* C7: _update_loadbalancer_instance fails with a bad request for 'pool' when the
\* pool does not exist (whether or not the VIP does), and with a bad request for
\* 'vip' when the pool exists and the VIP does not; in both cases it has issued
\* no remote write and the remote state and the template cache are unchanged.
C7_MissingPoolOrVip ==
    [][last'.op = Reconcile
       => /\ ~api.pool_exists[last'.pool]
                => /\ last'.exc = "BadRequest:pool"
                   /\ last'.calls = <<Call("loadbalancer_pool_read", <<last'.pool>>, FALSE)>>
                   /\ api' = api /\ lb_template' = lb_template
          /\ (api.pool_exists[last'.pool] /\ ~api.vip_exists[last'.vip])
                => /\ last'.exc = "BadRequest:vip"
                   /\ Writes(last'.calls) = <<>>
                   /\ api' = api /\ lb_template' = lb_template
          /\ last'.exc \in {"BadRequest:pool", "BadRequest:vip"}
                => ~(api.pool_exists[last'.pool] /\ api.vip_exists[last'.vip])]_vars

\* the call failed for a pool that is not in the store
C7_Witness ==
    /\ last.op = Reconcile
    /\ last.exc = "BadRequest:pool"
    /\ ~api.pool_exists[last.pool]
    /\ Writes(last.calls) = <<>>

(* ------------------------------------------------------------------ *)
(* C8                                                                  *)
(* ------------------------------------------------------------------ *)
\* C8, as stated: whenever a handler finds that the service template does not
\* exist, the error that reaches the caller is a bad request for 'pool', and the
\* call creates and updates no service instance.
C8_MissingTemplateIsBadRequest ==
    (\E i \in 1..Len(last.calls) :
        last.calls[i].api = "service_template_read" /\ ~last.calls[i].ok)
    => /\ last.exc = "BadRequest:pool"
       /\ NumCalls(last.calls, "service_instance_create") = 0
       /\ NumCalls(last.calls, "service_instance_update") = 0

(* ------------------------------------------------------------------ *)
(* C9                                                                  *)
(* ------------------------------------------------------------------ *)
\* C9: over the calls made on one adapter instance, service_template_read succeeds
\* at most once; once the template is cached, no call overwrites the cache or
\* reads the template; a failed read leaves the cache unset, and a call that
\* needs the template while the cache is unset reads it.
C9_TemplateMemoized ==
    [][last'.op # "none"
       => /\ tmpl_reads' <= 1
          /\ lb_template # None
                => /\ lb_template' = lb_template
                   /\ NumCalls(last'.calls, "service_template_read") = 0
                   /\ tmpl_reads' = tmpl_reads
          /\ (\E i \in 1..Len(last'.calls) :
                 last'.calls[i].api = "service_template_read" /\ ~last'.calls[i].ok)
                => lb_template' = None
          /\ (lb_template = None /\ last'.op \in {"create_vip", "create_pool"})
                => /\ NumCalls(last'.calls, "service_template_read") = 1
                   /\ last'.calls[1].ok <=> lb_template' = TemplateObj]_vars

\* a create_pool served from the cache after the template has gone from the store
C9_Witness ==
    /\ last.op = "create_pool"
    /\ last.exc = "ok"
    /\ ~api.tmpl_exists
    /\ lb_template = TemplateObj
    /\ tmpl_reads = 1
    /\ NumCalls(last.calls, "service_template_read") = 0

(* ------------------------------------------------------------------ *)
(* C10                                                                 *)
(* ------------------------------------------------------------------ *)
\* C10: _clear_loadbalancer_instance(tenant_id, pool_id) for a tenant without a
\* project returns normally, issues no service_instance_delete (its only call is
\* the failed project_read) and leaves the remote state unchanged.
C10_ClearToleratesMissingProject ==
    [][(last'.op = Clear /\ last'.tenant \notin ExistingProjects)
       => /\ last'.exc = "ok"
          /\ last'.calls = <<Call("project_read", <<last'.tenant>>, FALSE)>>
          /\ api' = api
          /\ lb_template' = lb_template]_vars

\* the teardown returned for a tenant without a project, the instance of the pool
\* still there
C10_Witness ==
    /\ last.op = Clear
    /\ last.tenant \notin ExistingProjects
    /\ last.exc = "ok"
    /\ NumCalls(last.calls, "service_instance_delete") = 0
    /\ api.si[ReconcileFqName(last.pool)].exists

(* ------------------------------------------------------------------ *)
(* C11                                                                 *)
(* ------------------------------------------------------------------ *)
\* the call in last asked to delete a service instance that others refer to in
\* store a
RefusedDelete(l, a) ==
    \E i \in 1..Len(l.calls) :
        /\ l.calls[i].api = "service_instance_delete"
        /\ l.calls[i].key \in a.si_refd

\* C11: when the service_instance_delete of _update_loadbalancer_instance (no
\* configuration) or of _clear_loadbalancer_instance is refused because the
\* instance is still referred to, the call returns normally, the instance and
\* the rest of the remote state stay as they were, the refused delete is the
\* only write attempted, and the same call made again attempts the delete again.
C11_RefsExistAbsorbed ==
    [][/\ (last'.op \in {Reconcile, Clear} /\ RefusedDelete(last', api))
          => /\ last'.exc = "ok"
             /\ api' = api
             /\ Len(Writes(last'.calls)) = 1
             /\ ~Writes(last'.calls)[1].ok
             /\ api'.si[Writes(last'.calls)[1].key].exists
       /\ (\E op \in {Reconcile, Clear} : SameCallAgain(op) /\ RefusedDelete(last, api))
          => /\ RefusedDelete(last', api')
             /\ NumCalls(last'.calls, "service_instance_delete") = 1]_vars

\* the reconciler found no configuration, its delete was refused and it returned
C11_Witness ==
    /\ last.op = Reconcile
    /\ last.exc = "ok"
    /\ RefusedDelete(last, api)
    /\ ~Computable(api, last.pool, last.vip)
    /\ api.si[ReconcileFqName(last.pool)].exists

(* ------------------------------------------------------------------ *)
(* C12                                                                 *)
(* ------------------------------------------------------------------ *)
\* the call in l is delete_pool, or update_pool for a pool without a VIP
PoolRemoval(l) == l.op = "delete_pool" \/ (l.op = "update_pool" /\ l.vip = None)

\* the name _clear_loadbalancer_instance derives for the pool of the call in l
RemovalFqName(l) == ProjectFqName[l.tenant] \o <<l.pool>>

\* C12, as stated: after delete_pool(pool) has returned, and after
\* update_pool(old, pool) has returned for a pool without a VIP, no service
\* instance exists at the name made of the pool's project and the pool id; and
\* delete_pool runs the teardown whether or not the pool has a VIP.
C12_AbsentAfterPoolRemoval ==
    /\ (PoolRemoval(last) /\ last.exc = "ok" /\ last.tenant \in ExistingProjects)
          => ~api.si[RemovalFqName(last)].exists
    /\ last.op = "delete_pool" => NumCalls(last.calls, "project_read") = 1

\* C12, amended: such a call runs the teardown and never the reconciler,
\* delete_pool whether or not the pool has a VIP; when it has returned, no
\* service instance exists at the name made of the pool's project and the pool
\* id, unless other resources refer to the instance: then the call returns
\* normally and the instance is still there, unchanged.
C12_AbsentUnlessReferenced ==
    [][PoolRemoval(last')
       => /\ CallsOf(last'.calls, "project_read")
                = <<Call("project_read", <<last'.tenant>>, last'.tenant \in ExistingProjects)>>
          /\ NumCalls(last'.calls, "loadbalancer_pool_read") = 0
          /\ last'.tenant \in ExistingProjects
                => /\ NumCalls(last'.calls, "service_instance_delete") = 1
                   /\ (last'.exc = "ok" /\ RemovalFqName(last') \notin api.si_refd)
                         => ~api'.si[RemovalFqName(last')].exists
                   /\ RemovalFqName(last') \in api.si_refd
                         => /\ last'.exc = "ok"
                            /\ api'.si[RemovalFqName(last')].exists
                            /\ api' = api]_vars

\* delete_pool for a pool without a VIP has deleted the pool's instance
C12_Witness ==
    /\ last.op = "delete_pool"
    /\ last.vip = None
    /\ last.tenant \in ExistingProjects
    /\ last.exc = "ok"
    /\ last.calls[Len(last.calls)] = Call("service_instance_delete", RemovalFqName(last), TRUE)
    /\ ~api.si[RemovalFqName(last)].exists

(* ------------------------------------------------------------------ *)
(* C13                                                                 *)
(* ------------------------------------------------------------------ *)
\* the call in l is create_vip or create_pool
Creation(l) == l.op \in {"create_vip", "create_pool"}

\* the VIP of the call has a pool, the pool of the call has a VIP
Associated(l) == l.pool # None /\ l.vip # None

\* the call in l read exactly the pool and then the VIP it was made for, as
\* _update_loadbalancer_instance does first
ReadPoolAndVip(l) ==
    /\ CallsOf(l.calls, "loadbalancer_pool_read")
          = <<Call("loadbalancer_pool_read", <<l.pool>>, TRUE)>>
    /\ \A i \in 1..Len(l.calls) :
          l.calls[i].api = "virtual_ip_read" => l.calls[i].key = <<l.vip>>

\* C13, as stated: create_vip and create_pool run the reconciler for the pair
\* exactly when the association is there; without it the call returns normally,
\* raises nothing and changes no remote state, in every remote state.
C13_CreateDispatch ==
    [][Creation(last')
       => /\ Associated(last') <=> NumCalls(last'.calls, "loadbalancer_pool_read") = 1
          /\ ~Associated(last') => (last'.exc = "ok" /\ api' = api)]_vars

\* C13, amended: create_vip and create_pool first get the template; when it is
\* neither cached nor readable the error of _get_template reaches the caller and
\* nothing else is done. Otherwise the reconciler runs for the pair exactly when
\* the association is there, and its outcome is the outcome of the call;
\* without the association the call returns normally, changes no remote state
\* and issues no call but the template read of an adapter without a cache.
C13_CreateDispatchAfterTemplate ==
    [][Creation(last')
       => /\ ~TemplateAvailable
                => /\ last'.exc # "ok"
                   /\ last'.calls
                         = <<Call("service_template_read", LOADBALANCER_SERVICE_TEMPLATE, FALSE)>>
                   /\ api' = api
                   /\ lb_template' = None
          /\ TemplateAvailable
                => /\ lb_template' = TemplateObj
                   /\ NumCalls(last'.calls, "service_template_read")
                         = (IF lb_template = None THEN 1 ELSE 0)
                   /\ Associated(last')
                         <=> NumCalls(last'.calls, "loadbalancer_pool_read") = 1
                   /\ Associated(last')
                         => /\ api.pool_exists[last'.pool] => ReadPoolAndVip(last')
                            /\ api' = _update_loadbalancer_instance(St, last'.pool, last'.vip).st.api
                            /\ last'.exc = _update_loadbalancer_instance(St, last'.pool, last'.vip).exc
                   /\ ~Associated(last')
                         => /\ last'.exc = "ok"
                            /\ api' = api
                            /\ NumCalls(last'.calls, "service_template_read") = Len(last'.calls)]_vars

\* create_vip for a VIP without a pool returned, having only loaded the template
C13_Witness ==
    /\ last.op = "create_vip"
    /\ last.pool = None
    /\ last.exc = "ok"
    /\ last.calls = <<Call("service_template_read", LOADBALANCER_SERVICE_TEMPLATE, TRUE)>>
    /\ lb_template = TemplateObj
    /\ \A n \in SiNames : ~api.si[n].exists

(* ------------------------------------------------------------------ *)
(* C14                                                                 *)
(* ------------------------------------------------------------------ *)
\* the call in l began as _update_loadbalancer_instance(pool_id, ...) does
BeganReconcile(l, pool_id) ==
    /\ l.calls # <<>>
    /\ l.calls[1].api = "loadbalancer_pool_read"
    /\ l.calls[1].key = <<pool_id>>

\* the call in l began as _clear_loadbalancer_instance(tenant_id, pool_id) does,
\* and any delete it issued is for the name made of that project and pool_id
BeganClear(l, tenant_id, pool_id) ==
    /\ l.calls # <<>>
    /\ l.calls[1].api = "project_read"
    /\ l.calls[1].key = <<tenant_id>>
    /\ \A i \in 1..Len(l.calls) :
          l.calls[i].api = "service_instance_delete"
             => l.calls[i].key = ProjectFqName[tenant_id] \o <<pool_id>>

\* the step leaves the store, the calls and the outcome of r
OutcomeOf(r) ==
    /\ api' = r.st.api
    /\ last'.calls = r.calls
    /\ last'.exc = r.exc

Handlers == {"create_vip", "update_vip", "delete_vip",
             "create_pool", "update_pool", "delete_pool"}

\* C14: update_vip runs the reconciler for (vip.pool_id, vip.id) when the new
\* VIP has a pool; otherwise, when the old VIP had a pool, the teardown for
\* (old_vip.tenant_id, old_vip.pool_id); otherwise nothing. delete_vip runs the
\* teardown for (vip.tenant_id, vip.pool_id) exactly when the VIP had a pool. No
\* call of a handler runs both the reconciler and the teardown.
C14_VipDispatch ==
    [][/\ last'.op = "update_vip"
          => /\ last'.pool # None
                   => /\ BeganReconcile(last', last'.pool)
                      /\ NumCalls(last'.calls, "project_read") = 0
                      /\ OutcomeOf(_update_loadbalancer_instance(St, last'.pool, last'.vip))
             /\ (last'.pool = None /\ last'.old_pool # None)
                   => /\ BeganClear(last', last'.tenant, last'.old_pool)
                      /\ NumCalls(last'.calls, "loadbalancer_pool_read") = 0
                      /\ OutcomeOf(_clear_loadbalancer_instance(St, last'.tenant, last'.old_pool))
             /\ (last'.pool = None /\ last'.old_pool = None)
                   => (last'.calls = <<>> /\ last'.exc = "ok" /\ api' = api)
       /\ last'.op = "delete_vip"
          => /\ last'.pool # None
                   => /\ BeganClear(last', last'.tenant, last'.pool)
                      /\ NumCalls(last'.calls, "loadbalancer_pool_read") = 0
                      /\ OutcomeOf(_clear_loadbalancer_instance(St, last'.tenant, last'.pool))
             /\ last'.pool = None
                   => (last'.calls = <<>> /\ last'.exc = "ok" /\ api' = api)
       /\ last'.op \in Handlers
          => ~ /\ NumCalls(last'.calls, "loadbalancer_pool_read") > 0
               /\ NumCalls(last'.calls, "project_read") > 0]_vars

\* update_vip for a VIP taken off its pool has deleted the pool's instance
C14_Witness ==
    /\ last.op = "update_vip"
    /\ last.pool = None
    /\ last.old_pool # None
    /\ last.tenant \in ExistingProjects
    /\ last.exc = "ok"
    /\ BeganClear(last, last.tenant, last.old_pool)
    /\ NumCalls(last.calls, "service_instance_delete") = 1
    /\ last.calls[2].ok
    /\ ~api.si[ProjectFqName[last.tenant] \o <<last.old_pool>>].exists

(* ------------------------------------------------------------------ *)
(* C15                                                                 *)
(* ------------------------------------------------------------------ *)
\* a call of a handler as a value, and the call made on st
HandlerCall(op, pool_id, vip_id, tenant_id, old_pool_id) ==
    [op |-> op, pool |-> pool_id, vip |-> vip_id, tenant |-> tenant_id,
     old_pool |-> old_pool_id]

Invoke(c, st) ==
    CASE c.op = "create_vip" -> create_vip(st, VipDict(c.vip, c.pool, c.tenant))
      [] c.op = "update_vip" -> update_vip(st, VipDict(c.vip, c.old_pool, c.tenant),
                                           VipDict(c.vip, c.pool, c.tenant))
      [] c.op = "delete_vip" -> delete_vip(st, VipDict(c.vip, c.pool, c.tenant))
      [] c.op = "create_pool" -> create_pool(st, PoolDict(c.pool, c.vip, c.tenant))
      [] c.op = "update_pool" -> update_pool(st, PoolDict(c.pool, None, c.tenant),
                                             PoolDict(c.pool, c.vip, c.tenant))
      [] c.op = "delete_pool" -> delete_pool(st, PoolDict(c.pool, c.vip, c.tenant))

\* the calls of the handlers that concern pool p and no other pool
CallsOn(p) ==
    {HandlerCall("create_vip", p, v, "t1", None) : v \in VipIds}
    \cup {HandlerCall("update_vip", p, v, t, old) :
             v \in VipIds, t \in TenantIds, old \in {None, p}}
    \cup {HandlerCall("update_vip", None, v, t, p) : v \in VipIds, t \in TenantIds}
    \cup {HandlerCall("delete_vip", p, v, t, None) : v \in VipIds, t \in TenantIds}
    \cup {HandlerCall("create_pool", p, v, "t1", None) : v \in VipIds \cup {None}}
    \cup {HandlerCall(op, p, v, t, None) :
             op \in {"update_pool", "delete_pool"}, v \in VipIds \cup {None},
             t \in TenantIds}

\* stores a and b are the same but for the uuids the store gave the instances
SameStore(a, b) ==
    /\ [a EXCEPT !.si = <<>>, !.pool_si_refs = <<>>]
          = [b EXCEPT !.si = <<>>, !.pool_si_refs = <<>>]
    /\ \A n \in SiNames :
          [a.si[n] EXCEPT !.uuid = 0] = [b.si[n] EXCEPT !.uuid = 0]
    /\ \A q \in PoolIds :
          /\ a.pool_si_refs[q] = <<>> <=> b.pool_si_refs[q] = <<>>
          /\ \A n \in SiNames :
                (a.si[n].exists /\ a.pool_si_refs[q] = <<a.si[n].uuid>>)
                   <=> (b.si[n].exists /\ b.pool_si_refs[q] = <<b.si[n].uuid>>)

\* two calls that concern different pools leave the same store in either order
OrderInsensitive ==
    \A p \in PoolIds, q \in PoolIds :
       p # q =>
          \A c \in CallsOn(p), e \in CallsOn(q) :
             SameStore(Invoke(e, Invoke(c, St).st).st.api,
                       Invoke(c, Invoke(e, St).st).st.api)

\* the same call of a handler made twice in a row has the outcome and leaves
\* the store of the call made once
HandlerIdempotent ==
    \A op \in Handlers :
       (SameCallAgain(op) /\ last'.old_pool = last.old_pool)
          => (last'.exc = last.exc /\ api' = api)

\* C15, as stated: for every handler and every remote state, the call made twice
\* in a row with the same arguments has the outcome (normal return or the same
\* error) and the final remote state of the call made once; and two calls of
\* handlers that concern different pool ids leave the same final remote state
\* in either order.
C15_IdempotentAndOrderInsensitive ==
    [][HandlerIdempotent]_vars /\ []OrderInsensitive

(* ------------------------------------------------------------------ *)
(* C16                                                                 *)
(* ------------------------------------------------------------------ *)
Interrupted == "_update_loadbalancer_instance_interrupted"

\* the service instances of store a
Instances(a) == {n \in SiNames : a.si[n].exists}

\* C16: when a call of the reconciler has been cut short after its
\* service_instance_create or service_instance_update and before the pool
\* update, the next call of the reconciler for the same pair that returns
\* normally, nothing else having changed, creates no service instance, leaves
\* the instance that is there as it is, and leaves the pool referring to it.
C16_SelfHealing ==
    [][(/\ last.op = Interrupted
        /\ last'.op = Reconcile
        /\ last'.pool = last.pool
        /\ last'.vip = last.vip
        /\ last'.exc = "ok")
       => /\ NumCalls(last'.calls, "service_instance_create") = 0
          /\ api.si[ReconcileFqName(last.pool)].exists
          /\ api'.si = api.si
          /\ Instances(api') = Instances(api)
          /\ api'.pool_si_refs[last.pool] = <<api.si[ReconcileFqName(last.pool)].uuid>>
          /\ NumCalls(last'.calls, "loadbalancer_pool_update")
                = (IF api.pool_si_refs[last.pool] = api'.pool_si_refs[last.pool]
                   THEN 0 ELSE 1)]_vars

\* the reconciler has completed after a call that was cut short behind its
\* create: the pool, which referred to an instance since deleted, now refers to
\* the instance of the call cut short
C16_Witness ==
    /\ last.op = Reconcile
    /\ last.exc = "ok"
    /\ Writes(last.calls) = <<Call("loadbalancer_pool_update", <<last.pool>>, TRUE)>>
    /\ api.si[ReconcileFqName(last.pool)].exists
    /\ api.si[ReconcileFqName(last.pool)].uuid = 2
    /\ api.pool_si_refs[last.pool] = <<2>>
    /\ Instances(api) = {ReconcileFqName(last.pool)}

(* ------------------------------------------------------------------ *)
(* C17                                                                 *)
(* ------------------------------------------------------------------ *)
NoOpHandlers == {"stats", "create_member", "update_member", "delete_member",
                 "update_pool_health_monitor", "create_pool_health_monitor",
                 "delete_pool_health_monitor"}

\* C17: a call of stats, of a member handler or of a health monitor handler
\* issues no remote call, leaves the remote state and the cached template as
\* they were and raises nothing, whatever its arguments and the state.
C17_NoOpHandlers ==
    [][last'.op \in NoOpHandlers
       => /\ last'.calls = <<>>
          /\ last'.exc = "ok"
          /\ api' = api
          /\ lb_template' = lb_template
          /\ tmpl_reads' = tmpl_reads]_vars

\* create_member has returned on an adapter that has not cached the template,
\* with an instance in the store that others refer to
C17_Witness ==
    /\ last.op = "create_member"
    /\ last.exc = "ok"
    /\ last.calls = <<>>
    /\ lb_template = None
    /\ api.si_refd # {}

(* ------------------------------------------------------------------ *)
(* C18                                                                 *)
(* ------------------------------------------------------------------ *)
\* the pool's qualified name with its last segment replaced by the pool id
DerivedName(p) == [PoolFqName[p] EXCEPT ![Len(PoolFqName[p])] = p]

\* the project the pool is a child of
PoolParent(p) ==
    CHOOSE t \in ExistingProjects :
        ProjectFqName[t] = SubSeq(PoolFqName[p], 1, Len(PoolFqName[p]) - 1)

ServiceInstanceApis == {"service_instance_read", "service_instance_create",
                        "service_instance_update", "service_instance_delete"}

\* every call on a service instance in l names the instance n
NamesOnly(l, n) ==
    \A i \in 1..Len(l.calls) :
        l.calls[i].api \in ServiceInstanceApis => l.calls[i].key = n

\* C18: every service instance call of the reconciler for a pool, whatever the
\* VIP and the properties, names the pool's qualified name with the last segment
\* replaced by the pool id; the teardown for the pool's parent project and the
\* pool id names the same instance, so that the teardown which follows a
\* reconciler that created the instance deletes that instance.
C18_NameAgreement ==
    [][/\ last'.op = Reconcile => NamesOnly(last', DerivedName(last'.pool))
       /\ (last'.op = Clear /\ last'.tenant = PoolParent(last'.pool))
          => /\ NamesOnly(last', DerivedName(last'.pool))
             /\ NumCalls(last'.calls, "service_instance_delete") = 1
       /\ (/\ last.op = Reconcile
           /\ NumCalls(last.calls, "service_instance_create") = 1
           /\ last'.op = Clear
           /\ last'.pool = last.pool
           /\ last'.tenant = PoolParent(last.pool)
           /\ DerivedName(last.pool) \notin api.si_refd)
          => /\ api.si[DerivedName(last.pool)].exists
             /\ last'.exc = "ok"
             /\ last'.calls[Len(last'.calls)]
                   = Call("service_instance_delete", DerivedName(last.pool), TRUE)
             /\ ~api'.si[DerivedName(last.pool)].exists]_vars

\* the teardown for the pool's project has deleted the instance the pool still
\* refers to
C18_Witness ==
    /\ last.op = Clear
    /\ last.tenant = PoolParent(last.pool)
    /\ last.exc = "ok"
    /\ last.calls[Len(last.calls)]
          = Call("service_instance_delete", DerivedName(last.pool), TRUE)
    /\ api.pool_si_refs[last.pool] # <<>>
    /\ ~api.si[DerivedName(last.pool)].exists

(* ------------------------------------------------------------------ *)
(* C19                                                                 *)
(* ------------------------------------------------------------------ *)
\* the call in l asked to delete a service instance that store a does not have
DeleteOfAbsent(l, a) ==
    \E i \in 1..Len(l.calls) :
        /\ l.calls[i].api = "service_instance_delete"
        /\ ~a.si[l.calls[i].key].exists

\* C19, as stated: when no service instance exists at the derived name, the
\* reconciler in its branch without configuration and the teardown for an
\* existing project (as in delete_pool for a pool that never had a VIP) return
\* normally, no error reaches the caller and the remote state is unchanged.
C19_DeleteOfAbsentTolerated ==
    [][(last'.op \in {Reconcile, Clear, "delete_pool"} /\ DeleteOfAbsent(last', api))
       => (last'.exc = "ok" /\ api' = api)]_vars

(* ------------------------------------------------------------------ *)
(* C20                                                                 *)
(* ------------------------------------------------------------------ *)
\* the call in l is update_vip for a VIP that moves from one pool to another
VipMoved(l) ==
    /\ l.op = "update_vip"
    /\ l.pool # None
    /\ l.old_pool # None
    /\ l.old_pool # l.pool

\* C20: update_vip for a VIP that moves from pool A to pool B runs the
\* reconciler for B alone: it issues no call for pool A, for A's project or for
\* the instance named after A, and that instance and A's reference are after
\* the call what they were before.
C20_MoveLeavesOldPool ==
    [][VipMoved(last')
       => /\ BeganReconcile(last', last'.pool)
          /\ NumCalls(last'.calls, "project_read") = 0
          /\ \A i \in 1..Len(last'.calls) :
                /\ last'.calls[i].key # <<last'.old_pool>>
                /\ last'.calls[i].key # DerivedName(last'.old_pool)
          /\ api'.si[DerivedName(last'.old_pool)] = api.si[DerivedName(last'.old_pool)]
          /\ api'.pool_si_refs[last'.old_pool] = api.pool_si_refs[last'.old_pool]
          /\ api'.si_refd = api.si_refd
          /\ OutcomeOf(_update_loadbalancer_instance(St, last'.pool, last'.vip))]_vars

\* the VIP has moved and the new pool has its instance, created by this call;
\* the instance of the old pool is still there and the old pool refers to it
C20_Witness ==
    /\ VipMoved(last)
    /\ last.exc = "ok"
    /\ NumCalls(last.calls, "service_instance_create") = 1
    /\ api.si[DerivedName(last.pool)].exists
    /\ api.si[DerivedName(last.old_pool)].exists
    /\ api.pool_si_refs[last.old_pool] = <<api.si[DerivedName(last.old_pool)].uuid>>
====
